---------------------------- MODULE Spec2Model ----------------------------
(***************************************************************************)
(* A model of confluence-poster: the command line program (main), the      *)
(* file converter with its four rewrite passes, the session builder and    *)
(* the poster.                                                             *)
(*                                                                         *)
(* Text is modelled character by character: a Python str is a TLA+ string, *)
(* a character is a string of length 1, and every regular expression of    *)
(* the source is written out as the matcher Python's re module runs for    *)
(* it (leftmost match, greedy and lazy quantifiers, backtracking).         *)
(* A call that raises is modelled by a result record whose exc field names *)
(* the exception; exc = "" is a normal return of val.                      *)
(***************************************************************************)
EXTENDS Integers, Sequences, FiniteSets, TLC

VARIABLES
    pc,               \* position of the running program / of the pass sequence
    args,             \* main: the parsed command line (argparse namespace)
    fs,               \* the file system at args.files: a directory or one file
    idx,              \* the index the running for loop is at
    processed_files,  \* convert: the list built so far
    reads,            \* the paths opened for reading so far, in order
    session,          \* post_the_files: the session build() returned
    calls,            \* the calls made on the Confluence session, in order
    results,          \* what update_or_create returned, call by call
    errlog,           \* the log.error records written so far
    exc,              \* the exception that ended the run, "" when none
    src,              \* pass specifications: the parts the input text is made of
    text              \* pass specifications: the text as rewritten so far

vars == <<pc, args, fs, idx, processed_files, reads, session, calls, results,
          errlog, exc, src, text>>

---------------------------------------------------------------------------
(* Python's str and re primitives *)

\* Python's None, and a present optional value.
None == <<>>
Some(v) == <<v>>

\* A normal return of v, and a raise of exception e.
Ok(v) == [exc |-> "", val |-> v]
Raise(e) == [exc |-> e, val |-> ""]

\* An assignment x = v followed by F(x): v is evaluated once and F gets its
\* value (a LET would evaluate v again at every use of x).
Bind(v, F(_)) == CHOOSE r \in {F(x) : x \in {v}} : TRUE

\* s[k-1:] and s[:k] of Python, for 1-based k.
From(s, k) == IF k > Len(s) THEN "" ELSE SubSeq(s, k, Len(s))
Upto(s, k) == IF k < 1 THEN "" ELSE SubSeq(s, 1, k)
\* s[a-1:b], the characters a..b.
Mid(s, a, b) == IF b < a THEN "" ELSE SubSeq(s, a, b)
At(s, k) == SubSeq(s, k, k)

\* Whether pat stands in s at position k.
StartsAt(s, pat, k) ==
    /\ k >= 1
    /\ k + Len(pat) - 1 <= Len(s)
    /\ SubSeq(s, k, k + Len(pat) - 1) = pat

\* str.endswith
EndsWith(s, suf) == Len(suf) <= Len(s) /\ StartsAt(s, suf, Len(s) - Len(suf) + 1)

\* The first position in lo..hi where pat stands in s, 0 when there is none.
\* The range is halved and its left half searched first, which finds the same
\* position as a scan from lo upwards.
RECURSIVE FindIn(_, _, _, _)
FindIn(s, pat, lo, hi) ==
    IF lo > hi THEN 0
    ELSE IF lo = hi THEN (IF StartsAt(s, pat, lo) THEN lo ELSE 0)
    ELSE Bind((lo + hi) \div 2, LAMBDA mid :
         Bind(FindIn(s, pat, lo, mid), LAMBDA l :
         IF l # 0 THEN l ELSE FindIn(s, pat, mid + 1, hi)))

\* str.find from position k on: the first position of pat at or after k, 0 when
\* there is none.
Find(s, pat, k) == FindIn(s, pat, k, Len(s) - Len(pat) + 1)

\* The last position in lo..hi where pat stands in s, 0 when there is none.
RECURSIVE RFindIn(_, _, _, _)
RFindIn(s, pat, lo, hi) ==
    IF lo > hi THEN 0
    ELSE IF lo = hi THEN (IF StartsAt(s, pat, lo) THEN lo ELSE 0)
    ELSE Bind((lo + hi) \div 2, LAMBDA mid :
         Bind(RFindIn(s, pat, mid + 1, hi), LAMBDA r :
         IF r # 0 THEN r ELSE RFindIn(s, pat, lo, mid)))

\* str.rfind: the last position of pat in s, 0 when there is none.
RFind(s, pat) == RFindIn(s, pat, 1, Len(s) - Len(pat) + 1)

\* str.replace(old, new, count) on s[k-1:]: the first count non-overlapping
\* occurrences of old, left to right, become new (every one when count is
\* negative).
RECURSIVE ReplaceFrom(_, _, _, _, _)
ReplaceFrom(s, old, new, count, k) ==
    Bind(Find(s, old, k), LAMBDA p :
    IF count = 0 \/ p = 0 THEN From(s, k)
    ELSE Mid(s, k, p - 1) \o new
         \o ReplaceFrom(s, old, new, count - 1, p + Len(old)))

ReplaceN(s, old, new, count) ==
    Bind(s, LAMBDA s1 : Bind(old, LAMBDA old1 : Bind(new, LAMBDA new1 :
    ReplaceFrom(s1, old1, new1, count, 1))))

\* str.replace(old, new): every non-overlapping occurrence.
Replace(s, old, new) == ReplaceN(s, old, new, -1)

LowerLetters == {"a","b","c","d","e","f","g","h","i","j","k","l","m",
                 "n","o","p","q","r","s","t","u","v","w","x","y","z"}
UpperLetters == {"A","B","C","D","E","F","G","H","I","J","K","L","M",
                 "N","O","P","Q","R","S","T","U","V","W","X","Y","Z"}
\* [a-zA-Z]
Letters == LowerLetters \cup UpperLetters
\* \d
Digits == {"0","1","2","3","4","5","6","7","8","9"}
\* \s, and what str.strip() strips
Whitespace == {" ", "\t", "\n", "\r", "\f"}

\* c.upper() and c.lower() of one character.
UpperOf ==
    [c \in LowerLetters |->
       CASE c = "a" -> "A" [] c = "b" -> "B" [] c = "c" -> "C" [] c = "d" -> "D"
         [] c = "e" -> "E" [] c = "f" -> "F" [] c = "g" -> "G" [] c = "h" -> "H"
         [] c = "i" -> "I" [] c = "j" -> "J" [] c = "k" -> "K" [] c = "l" -> "L"
         [] c = "m" -> "M" [] c = "n" -> "N" [] c = "o" -> "O" [] c = "p" -> "P"
         [] c = "q" -> "Q" [] c = "r" -> "R" [] c = "s" -> "S" [] c = "t" -> "T"
         [] c = "u" -> "U" [] c = "v" -> "V" [] c = "w" -> "W" [] c = "x" -> "X"
         [] c = "y" -> "Y" [] c = "z" -> "Z"]
Upper(c) == IF c \in LowerLetters THEN UpperOf[c] ELSE c
Lower(c) == IF c \in UpperLetters
            THEN CHOOSE l \in LowerLetters : UpperOf[l] = c
            ELSE c

\* s[lo-1:hi].lower(), used for matching under re.IGNORECASE (character by
\* character; the range is halved to keep the recursion shallow).
RECURSIVE LowerIn(_, _, _)
LowerIn(s, lo, hi) ==
    IF lo > hi THEN ""
    ELSE IF lo = hi THEN Lower(At(s, lo))
    ELSE Bind((lo + hi) \div 2, LAMBDA mid :
         LowerIn(s, lo, mid) \o LowerIn(s, mid + 1, hi))
LowerStr(s) == Bind(s, LAMBDA s1 : LowerIn(s1, 1, Len(s1)))

\* The first (FirstIn) and last (LastIn) position in lo..hi whose character is
\* in the set cs (member = TRUE) or outside it (member = FALSE); 0 when none.
RECURSIVE FirstIn(_, _, _, _, _)
FirstIn(s, cs, member, lo, hi) ==
    IF lo > hi THEN 0
    ELSE IF lo = hi THEN (IF (At(s, lo) \in cs) = member THEN lo ELSE 0)
    ELSE Bind((lo + hi) \div 2, LAMBDA mid :
         Bind(FirstIn(s, cs, member, lo, mid), LAMBDA l :
         IF l # 0 THEN l ELSE FirstIn(s, cs, member, mid + 1, hi)))
RECURSIVE LastIn(_, _, _, _, _)
LastIn(s, cs, member, lo, hi) ==
    IF lo > hi THEN 0
    ELSE IF lo = hi THEN (IF (At(s, lo) \in cs) = member THEN lo ELSE 0)
    ELSE Bind((lo + hi) \div 2, LAMBDA mid :
         Bind(LastIn(s, cs, member, mid + 1, hi), LAMBDA r :
         IF r # 0 THEN r ELSE LastIn(s, cs, member, lo, mid)))

\* str.strip()
Strip(s) ==
    Bind(s, LAMBDA s1 :
    Bind(FirstIn(s1, Whitespace, FALSE, 1, Len(s1)), LAMBDA a :
    IF a = 0 THEN ""
    ELSE Mid(s1, a, LastIn(s1, Whitespace, FALSE, 1, Len(s1)))))

\* The end of the longest run of characters of class cls starting at k: the
\* position after the run (k itself when the run is empty).
RunEnd(s, cls, k) ==
    Bind(FirstIn(s, cls, FALSE, k, Len(s)), LAMBDA m :
    IF m = 0 THEN (IF k > Len(s) THEN k ELSE Len(s) + 1) ELSE m)

\* The first position at or after k of a character of the set cs that is
\* reached without crossing a character of the set stop, 0 when there is none.
FindChar(s, cs, stop, k) ==
    Bind(FirstIn(s, cs \cup stop, TRUE, k, Len(s)), LAMBDA m :
    IF m # 0 /\ At(s, m) \in cs THEN m ELSE 0)

\* The end of the line position k is on: the position of the next newline,
\* Len + 1 when there is none ( . does not match a newline).
EndOfLine(s, k) ==
    Bind(Find(s, "\n", k), LAMBDA n : IF n = 0 THEN Len(s) + 1 ELSE n)

---------------------------------------------------------------------------
(* FileConverter._convert_code_block *)

\* _process_language: 'none' without a class, else lang.rsplit('-', 1)[1],
\* which raises IndexError when the class value holds no hyphen.
_process_language(lang) ==
    IF lang = None THEN Ok("none")
    ELSE Bind(lang[1], LAMBDA v :
         Bind(RFind(v, "-"), LAMBDA h :
         IF h = 0 THEN Raise("IndexError") ELSE Ok(From(v, h + 1))))

\* The four chained str.replace calls on the CDATA content.
Unescape(content) ==
    Replace(Replace(Replace(Replace(content, "&amp;", "&"), "&quot;", "\""),
                    "&lt;", "<"), "&gt;", ">")

\* The start of every code macro: its name and the two fixed parameters.
CodeMacroHead ==
    "<ac:structured-macro ac:name=\"code\">"
    \o "<ac:parameter ac:name=\"theme\">Midnight</ac:parameter>"
    \o "<ac:parameter ac:name=\"linenumbers\">true</ac:parameter>"

\* _replace: the macro built for one match (class group, content group).
_replace(class, body) ==
    Bind(_process_language(class), LAMBDA lang :
    IF lang.exc # "" THEN lang
    ELSE Ok(CodeMacroHead
            \o "<ac:parameter ac:name=\"language\">" \o lang.val
            \o "</ac:parameter>"
            \o Unescape("<ac:plain-text-body><![CDATA[" \o body
                        \o "]]></ac:plain-text-body>")
            \o "</ac:structured-macro>"))

\* One match: the class group (None when it did not take part), the content
\* group and the position after the match.
CodeMatch(class, content, end) ==
    [class |-> class, content |-> content, end |-> end]

\* The match of
\*   <pre><code[^>]*?(?: class="(?P<class>[^"]*)")?[^>]*?>(?P<content>.*?)</code></pre>
\* (re.DOTALL) that starts at position p, or None.
\* The lazy [^>]*? first takes nothing, so the optional group is tried right
\* after <pre><code and captures only there (r: its closing quote, gA: the
\* tag's >, eA: the closing tags); when that fails the group is skipped and
\* the tag runs to the first > (gB, eB). Growing the first [^>]*? is tried only
\* after both fail, and then nothing later can match either (the same > and
\* the same </code></pre> are missing).
CodeMatchAt(html, p) ==
    IF ~StartsAt(html, "<pre><code", p) THEN None
    ELSE
    Bind(p + Len("<pre><code"), LAMBDA q :
    Bind(IF StartsAt(html, " class=\"", q)
         THEN Find(html, "\"", q + Len(" class=\"")) ELSE 0, LAMBDA r :
    Bind(IF r = 0 THEN 0 ELSE FindChar(html, {">"}, {}, r + 1), LAMBDA gA :
    Bind(IF gA = 0 THEN 0 ELSE Find(html, "</code></pre>", gA + 1), LAMBDA eA :
    IF eA # 0
    THEN Some(CodeMatch(Some(Mid(html, q + Len(" class=\""), r - 1)),
                        Mid(html, gA + 1, eA - 1),
                        eA + Len("</code></pre>")))
    ELSE
    Bind(FindChar(html, {">"}, {}, q), LAMBDA gB :
    Bind(IF gB = 0 THEN 0 ELSE Find(html, "</code></pre>", gB + 1), LAMBDA eB :
    IF eB # 0
    THEN Some(CodeMatch(None, Mid(html, gB + 1, eB - 1),
                        eB + Len("</code></pre>")))
    ELSE None))))))

\* re.sub over html from position p on: the text before each match is kept, the
\* match becomes _replace's result, and the scan goes on after the match. A
\* raise inside _replace ends the whole call.
RECURSIVE CodeSubFrom(_, _)
CodeSubFrom(html, p) ==
    Bind(Find(html, "<pre><code", p), LAMBDA o :
    IF o = 0 THEN Ok(From(html, p))
    ELSE
    Bind(CodeMatchAt(html, o), LAMBDA m :
    IF m = None
    THEN Bind(CodeSubFrom(html, o + 1), LAMBDA rest :
         IF rest.exc # "" THEN rest ELSE Ok(Mid(html, p, o) \o rest.val))
    ELSE
    Bind(_replace(m[1].class, m[1].content), LAMBDA macro :
    IF macro.exc # "" THEN macro
    ELSE
    Bind(CodeSubFrom(html, m[1].end), LAMBDA rest :
    IF rest.exc # "" THEN rest
    ELSE Ok(Mid(html, p, o - 1) \o macro.val \o rest.val)))))

_convert_code_block(html) == Bind(html, LAMBDA h : CodeSubFrom(h, 1))

---------------------------------------------------------------------------
(* FileConverter._convert_links *)

\* The match of
\*   (?P<start>\<a[^>]* href=\")(?P<link>[a-zA-Z]+[\_][a-zA-Z]+)(?P<end>\"[^>]*\>)
\* whose  href="  stands at position h (the space before href included), as
\* [us, end]: the position of the link's underscore and the position after
\* the match; None when the link or the end group does not match there.
LinkAtHref(content, h) ==
    IF ~StartsAt(content, " href=\"", h) THEN None
    ELSE
    Bind(h + Len(" href=\""), LAMBDA a :
    Bind(RunEnd(content, Letters, a), LAMBDA e1 :
    Bind(RunEnd(content, Letters, e1 + 1), LAMBDA e2 :
    Bind(FindChar(content, {">"}, {}, e2 + 1), LAMBDA g :
    IF /\ e1 > a /\ StartsAt(content, "_", e1)
       /\ e2 > e1 + 1 /\ StartsAt(content, "\"", e2)
       /\ g # 0
    THEN Some([us |-> e1, end |-> g + 1])
    ELSE None))))

\* The greedy [^>]* before href: of the positions lo..hi the rightmost one at
\* which the rest of the pattern matches wins.
RECURSIVE LastHref(_, _, _)
LastHref(content, lo, hi) ==
    IF lo > hi THEN None
    ELSE IF lo = hi THEN LinkAtHref(content, lo)
    ELSE Bind((lo + hi) \div 2, LAMBDA mid :
         Bind(LastHref(content, mid + 1, hi), LAMBDA r :
         IF r # None THEN r ELSE LastHref(content, lo, mid)))

\* The match that starts at position p (where <a stands): [^>]* cannot cross
\* a >, so href=" lies before the first > after <a.
LinkMatchAt(content, p) ==
    Bind(FindChar(content, {">"}, {}, p + 2), LAMBDA t :
    IF ~StartsAt(content, "<a", p) \/ t = 0 THEN None
    ELSE LastHref(content, p + 2, t - Len(" href=\"")))

\* re.sub with _replace_underscores: the link's underscore becomes a space,
\* start and end are put back as they were.
RECURSIVE LinkSubFrom(_, _)
LinkSubFrom(content, p) ==
    Bind(Find(content, "<a", p), LAMBDA o :
    IF o = 0 THEN From(content, p)
    ELSE
    Bind(LinkMatchAt(content, o), LAMBDA m :
    IF m = None THEN Mid(content, p, o) \o LinkSubFrom(content, o + 1)
    ELSE Mid(content, p, m[1].us - 1) \o " "
         \o Mid(content, m[1].us + 1, m[1].end - 1)
         \o LinkSubFrom(content, m[1].end)))

_convert_links(content) ==
    Bind(Replace(Replace(content, ".md\"", "\""), ".html#", "#"), LAMBDA c :
    LinkSubFrom(c, 1))

---------------------------------------------------------------------------
(* FileConverter._convert_references *)

\* The match of '\n(\[\^(\d)\].*)|<p>(\[\^(\d)\].*)' that starts at position p,
\* as [first, full, id, end]: first tells whether the first alternative
\* (groups 1, 2) or the second (groups 3, 4) matched; None when neither does.
RefAt(content, p) ==
    IF /\ StartsAt(content, "\n[^", p)
       /\ p + 4 <= Len(content)
       /\ At(content, p + 3) \in Digits
       /\ At(content, p + 4) = "]"
    THEN Bind(EndOfLine(content, p + 1), LAMBDA e1 :
         Some([first |-> TRUE, full |-> Mid(content, p + 1, e1 - 1),
               id |-> At(content, p + 3), end |-> e1]))
    ELSE IF /\ StartsAt(content, "<p>[^", p)
            /\ p + 6 <= Len(content)
            /\ At(content, p + 5) \in Digits
            /\ At(content, p + 6) = "]"
    THEN Bind(EndOfLine(content, p), LAMBDA e2 :
         Some([first |-> FALSE, full |-> Mid(content, p + 3, e2 - 1),
               id |-> At(content, p + 5), end |-> e2]))
    ELSE None

\* The leftmost match that starts in lo..hi, None when there is none.
RECURSIVE FirstRef(_, _, _)
FirstRef(content, lo, hi) ==
    IF lo > hi THEN None
    ELSE IF lo = hi THEN RefAt(content, lo)
    ELSE Bind((lo + hi) \div 2, LAMBDA mid :
         Bind(FirstRef(content, lo, mid), LAMBDA l :
         IF l # None THEN l ELSE FirstRef(content, mid + 1, hi)))

\* re.findall(...) from position p on: the matches left to right, each scan
\* starting where the match before it ended.
RECURSIVE FindRefs(_, _)
FindRefs(content, p) ==
    Bind(FirstRef(content, p, Len(content)), LAMBDA m :
    IF m = None THEN <<>> ELSE m \o FindRefs(content, m[1].end))

StripP(s) == Replace(Replace(s, "</p>", ""), "<p>", "")

\* '<a id="test" href="%s"><sup>%s</sup></a>' % (href, ref_id)
Superscript(href, ref_id) ==
    "<a id=\"test\" href=\"" \o href \o "\"><sup>" \o ref_id \o "</sup></a>"

\* A wrong loop: a definition without href is passed over instead of raising.
RECURSIVE RefsLoopSkippingBare(_, _, _)
RefsLoopSkippingBare(content, refs, k) ==
    IF k > Len(refs) THEN Ok(content)
    ELSE
    Bind(IF refs[k].first THEN StripP(StripP(refs[k].full))
         ELSE StripP(refs[k].full), LAMBDA full_ref :
    Bind(Find(full_ref, "href=\"", 1), LAMBDA h :
    Bind(IF h = 0 THEN 0 ELSE Find(full_ref, "\"", h + Len("href=\"")), LAMBDA c :
    IF c = 0 THEN RefsLoopSkippingBare(content, refs, k + 1)
    ELSE
    Bind(Replace(Replace(content, full_ref, ""),
                 "[^" \o refs[k].id \o "]",
                 Superscript(Mid(full_ref, h + Len("href=\""), c - 1), refs[k].id)),
         LAMBDA replaced :
    RefsLoopSkippingBare(replaced, refs, k + 1)))))

\* The loop body for refs[k..]: the definition is deleted by value, its href
\* extracted (re.search('href="(.*?)"', full_ref) is None without one, and
\* .group raises AttributeError), and every [^id] replaced by the superscript
\* anchor.
RECURSIVE RefsLoop(_, _, _)
RefsLoop(content, refs, k) ==
    IF k > Len(refs) THEN Ok(content)
    ELSE
    Bind(IF refs[k].first THEN StripP(StripP(refs[k].full))
         ELSE StripP(refs[k].full), LAMBDA full_ref :
    Bind(Find(full_ref, "href=\"", 1), LAMBDA h :
    Bind(IF h = 0 THEN 0 ELSE Find(full_ref, "\"", h + Len("href=\"")), LAMBDA c :
    IF c = 0 THEN Raise("AttributeError")
    ELSE
    Bind(Replace(Replace(content, full_ref, ""),
                 "[^" \o refs[k].id \o "]",
                 Superscript(Mid(full_ref, h + Len("href=\""), c - 1), refs[k].id)),
         LAMBDA replaced :
    RefsLoop(replaced, refs, k + 1)))))

_convert_references(content) ==
    Bind(content, LAMBDA c :
    Bind(FindRefs(c, 1), LAMBDA refs : RefsLoop(c, refs, 1)))

---------------------------------------------------------------------------
(* FileConverter._convert_info_macros, _strip_type, _convert_doctoc *)

\* The elements the patterns of _strip_type are made of: a literal, \s,
\* the lazy <.*?> and <(em|strong)>.
Lit(str) == [kind |-> "lit", str |-> str]
Space == [kind |-> "space", str |-> ""]
AnyTag == [kind |-> "tag", str |-> ""]
EmStrong == [kind |-> "emstrong", str |-> ""]

\* The backtracking match of the elements pat[i..] at position k of s: the
\* position after the match re finds first, 0 when there is none. For <.*?>
\* the closing > is tried from the nearest one on ( . matches > but no
\* newline), each time with the rest of the pattern, as re's lazy .*? does.
RECURSIVE MatchSeq(_, _, _, _)
RECURSIVE LazyClose(_, _, _, _)
MatchSeq(s, pat, i, k) ==
    IF i > Len(pat) THEN k
    ELSE CASE pat[i].kind = "lit" ->
                IF StartsAt(s, pat[i].str, k)
                THEN MatchSeq(s, pat, i + 1, k + Len(pat[i].str)) ELSE 0
           [] pat[i].kind = "space" ->
                IF k <= Len(s) /\ At(s, k) \in Whitespace
                THEN MatchSeq(s, pat, i + 1, k + 1) ELSE 0
           [] pat[i].kind = "emstrong" ->
                IF StartsAt(s, "<em>", k)
                THEN MatchSeq(s, pat, i + 1, k + Len("<em>"))
                ELSE IF StartsAt(s, "<strong>", k)
                THEN MatchSeq(s, pat, i + 1, k + Len("<strong>"))
                ELSE 0
           [] pat[i].kind = "tag" ->
                IF StartsAt(s, "<", k)
                THEN Bind(k + 1, LAMBDA g : LazyClose(s, pat, i, g))
                ELSE 0
LazyClose(s, pat, i, g) ==
    Bind(FindChar(s, {">"}, {"\n"}, g), LAMBDA c :
    IF c = 0 THEN 0
    ELSE Bind(MatchSeq(s, pat, i + 1, c + 1), LAMBDA r :
         IF r # 0 THEN r ELSE LazyClose(s, pat, i, c + 1)))

\* The leftmost position in lo..hi at which pat matches, 0 when there is none.
RECURSIVE FirstMatch(_, _, _, _)
FirstMatch(s, pat, lo, hi) ==
    IF lo > hi THEN 0
    ELSE IF lo = hi THEN (IF MatchSeq(s, pat, 1, lo) # 0 THEN lo ELSE 0)
    ELSE Bind((lo + hi) \div 2, LAMBDA mid :
         Bind(FirstMatch(s, pat, lo, mid), LAMBDA l :
         IF l # 0 THEN l ELSE FirstMatch(s, pat, mid + 1, hi)))

\* re.sub(pat, '', s, count) on s[k-1:]: the first count matches, left to
\* right, are deleted.
RECURSIVE SubFrom(_, _, _, _)
SubFrom(s, pat, count, k) ==
    Bind(IF count = 0 THEN 0 ELSE FirstMatch(s, pat, k, Len(s)), LAMBDA o :
    IF o = 0 THEN From(s, k)
    ELSE Bind(MatchSeq(s, pat, 1, o), LAMBDA e :
         Mid(s, k, o - 1) \o SubFrom(s, pat, count - 1, e)))

SubN(s, pat, count) ==
    Bind(s, LAMBDA s1 : Bind(pat, LAMBDA pat1 : SubFrom(s1, pat1, count, 1)))

\* re.IGNORECASE, the integer _strip_type hands to re.sub as its fourth
\* positional argument, which is count (flags is the fifth).
IGNORECASE == 2

\* _upper_chars(tag, [index]) for a 0-based index: that character upper-cased,
\* nothing when the index is past the end.
_upper_chars(tag, index) ==
    IF index + 1 > Len(tag) THEN tag
    ELSE Upto(tag, index) \o Upper(At(tag, index + 1)) \o From(tag, index + 2)

\* The eight patterns of _strip_type for a tag type, in the source's order.
StripPatterns(tagtype) ==
    << <<Lit(tagtype \o ":"), Space>>,
       <<Lit(tagtype), Space, Lit(":"), Space>>,
       <<AnyTag, Lit(tagtype \o ":"), Space, AnyTag>>,
       <<AnyTag, Lit(tagtype), Space, Lit(":"), Space, AnyTag>>,
       <<EmStrong, Lit(tagtype \o ":"), AnyTag, Space>>,
       <<EmStrong, Lit(tagtype), Space, Lit(":"), AnyTag, Space>>,
       <<EmStrong, Lit(tagtype), AnyTag, Lit(":"), Space>>,
       <<EmStrong, Lit(tagtype), Space, AnyTag, Lit(":"), Space>> >>

\* _strip_type: the eight substitutions, each with count = re.IGNORECASE and
\* no flags (tag.strip() before the first two), then the character after the
\* first <.*?> upper-cased; without any <.*?> re.search returns None and
\* string_start.end() raises AttributeError.
_strip_type(tag, tagtype) ==
    Bind(StripPatterns(tagtype), LAMBDA pats :
    Bind(SubN(Strip(tag), pats[1], IGNORECASE), LAMBDA t1 :
    Bind(SubN(Strip(t1), pats[2], IGNORECASE), LAMBDA t2 :
    Bind(SubN(t2, pats[3], IGNORECASE), LAMBDA t3 :
    Bind(SubN(t3, pats[4], IGNORECASE), LAMBDA t4 :
    Bind(SubN(t4, pats[5], IGNORECASE), LAMBDA t5 :
    Bind(SubN(t5, pats[6], IGNORECASE), LAMBDA t6 :
    Bind(SubN(t6, pats[7], IGNORECASE), LAMBDA t7 :
    Bind(SubN(t7, pats[8], IGNORECASE), LAMBDA t8 :
    Bind(FirstMatch(t8, <<AnyTag>>, 1, Len(t8)), LAMBDA o :
    IF o = 0 THEN Raise("AttributeError")
    ELSE Bind(MatchSeq(t8, <<AnyTag>>, 1, o) - 1, LAMBDA string_start_end :
         Ok(_upper_chars(t8, string_start_end)))))))))))))

\* The table-of-contents macro that replaces the doctoc block.
toc_tag ==
        "<p>" \o "\n"
        \o "        <ac:structured-macro ac:name=\"toc\">" \o "\n"
        \o "          <ac:parameter ac:name=\"printable\">true</ac:parameter>" \o "\n"
        \o "          <ac:parameter ac:name=\"style\">disc</ac:parameter>" \o "\n"
        \o "          <ac:parameter ac:name=\"maxLevel\">7</ac:parameter>" \o "\n"
        \o "          <ac:parameter ac:name=\"minLevel\">1</ac:parameter>" \o "\n"
        \o "          <ac:parameter ac:name=\"type\">list</ac:parameter>" \o "\n"
        \o "          <ac:parameter ac:name=\"outline\">clear</ac:parameter>" \o "\n"
        \o "          <ac:parameter ac:name=\"include\">.*</ac:parameter>" \o "\n"
        \o "        </ac:structured-macro>" \o "\n"
        \o "        </p>"

\* _convert_doctoc: the greedy .* under re.DOTALL runs from the first START
\* marker to the last END marker after it; one match at most.
_convert_doctoc(content) ==
    Bind(content, LAMBDA c :
    Bind(Find(c, "<!-- START doctoc", 1), LAMBDA o :
    Bind(RFind(c, "END doctoc -->"), LAMBDA e :
    IF o = 0 \/ e < o + Len("<!-- START doctoc") THEN c
    ELSE Upto(c, o - 1) \o toc_tag \o From(c, e + Len("END doctoc -->")))))

info_tag == "<p><ac:structured-macro ac:name=\"info\"><ac:rich-text-body><p>"
note_tag == Replace(info_tag, "info", "note")
warning_tag == Replace(info_tag, "info", "warning")
close_tag == "</p></ac:rich-text-body></ac:structured-macro></p>"

\* re.findall('<blockquote>(.*?)</blockquote>', content, re.DOTALL) from
\* position p on: each body runs to the nearest closing tag.
RECURSIVE Blockquotes(_, _)
Blockquotes(content, p) ==
    Bind(Find(content, "<blockquote>", p), LAMBDA o :
    Bind(IF o = 0 THEN 0
         ELSE Find(content, "</blockquote>", o + Len("<blockquote>")), LAMBDA c :
    IF c = 0 THEN <<>>
    ELSE <<Mid(content, o + Len("<blockquote>"), c - 1)>>
         \o Blockquotes(content, c + Len("</blockquote>"))))

\* re.search('^<.*>' + word, quote.strip(), re.IGNORECASE) is not None: the
\* stripped quote starts with <, and on its first line some > is followed by
\* the word in any letter case.
StartsWithType(quote, word) ==
    Bind(Strip(quote), LAMBDA st :
    /\ StartsAt(st, "<", 1)
    /\ Bind(LowerStr(Upto(st, EndOfLine(st, 1) - 1)), LAMBDA line :
       Bind(">" \o LowerStr(word), LAMBDA w : Find(line, w, 2) # 0)))

\* The macro markup for one blockquote body.
MacroTag(quote) ==
    Bind(StartsWithType(quote, "Note"), LAMBDA note :
    Bind(StartsWithType(quote, "Warning"), LAMBDA warning :
    IF note \/ warning
    THEN Bind(_strip_type(quote, IF note THEN "Note" ELSE "Warning"),
              LAMBDA clean_tag :
         IF clean_tag.exc # "" THEN clean_tag
         ELSE Ok(Strip(Replace(Replace(clean_tag.val, "<p>",
                                       IF note THEN note_tag ELSE warning_tag),
                               "</p>", close_tag))))
    ELSE Ok(Strip(Replace(Replace(quote, "<p>", info_tag), "</p>", close_tag)))))

\* The loop over quotes[k..]: each blockquote is replaced by value.
RECURSIVE QuotesLoop(_, _, _)
QuotesLoop(content, quotes, k) ==
    IF k > Len(quotes) THEN Ok(content)
    ELSE Bind(MacroTag(quotes[k]), LAMBDA macro_tag :
         IF macro_tag.exc # "" THEN macro_tag
         ELSE Bind(Replace(content,
                           "<blockquote>" \o quotes[k] \o "</blockquote>",
                           macro_tag.val), LAMBDA replaced :
              QuotesLoop(replaced, quotes, k + 1)))

\* The three pairs of str.replace calls on the marker paragraphs.
Markers(content) ==
    Replace(Replace(Replace(Replace(Replace(Replace(content,
        "<p>~?", info_tag), "?~</p>", close_tag),
        "<p>~!", note_tag), "!~</p>", close_tag),
        "<p>~%", warning_tag), "%~</p>", close_tag)

_convert_info_macros(content) ==
    Bind(Markers(content), LAMBDA c3 :
    Bind(Blockquotes(c3, 1), LAMBDA quotes :
    Bind(QuotesLoop(c3, quotes, 1), LAMBDA quoted :
    IF quoted.exc # "" THEN quoted
    ELSE Ok(_convert_doctoc(quoted.val)))))

---------------------------------------------------------------------------
(* FileConverter._convert_to_confluence *)

\* The four passes in the source's order; a raise in one ends the call.
_convert_to_confluence(converted_markdown) ==
    Bind(_convert_info_macros(converted_markdown), LAMBDA a :
    IF a.exc # "" THEN a
    ELSE Bind(_convert_code_block(_convert_links(a.val)), LAMBDA c :
         IF c.exc # "" THEN c
         ELSE _convert_references(c.val)))

---------------------------------------------------------------------------
(* FileConverter.convert and the file level of the converter *)

\* The largest number of entries of the input directory.
MaxFiles == 2

\* The files the input directory may hold: a name and the text stored in it.
FilePool ==
    { [name |-> "empty_md.md",     text |-> ""],
      [name |-> "empty_html.html", text |-> ""],
      [name |-> "notes.txt",       text |-> "plain"],
      [name |-> "page.html",       text |-> "<p>see <a href=\"a_b\">a</a></p>"],
      [name |-> "v1.2.md",         text |-> "    x &lt; y"],
      [name |-> "ref.md",          text |-> "[^1]: no link"],
      [name |-> ".md",             text |-> "plain"] }

\* markdown.markdown(text, extensions=[tables, fenced_code]): the renderer is
\* a library outside the repository, given here by its output for the texts
\* of FilePool (an indented block becomes a code block with & escaped, any
\* other line a paragraph).
markdown(t) ==
    CASE t = "" -> ""
      [] t = "    x &lt; y" -> "<pre><code>x &amp;lt; y\n</code></pre>"
      [] OTHER -> "<p>" \o t \o "</p>"

\* processed_file.ProcessedFile(title, content)
ProcessedFile(title, content) == [title |-> title, content |-> content]

\* A wrong _process_title: the name is cut at its first dot instead of its
\* last one.
TitleCutAtFirstDot(input_file) ==
    Bind(From(input_file, RFind(input_file, "/") + 1), LAMBDA name :
    Bind(Find(name, ".", 1), LAMBDA dot :
    IF 1 < dot /\ dot < Len(name) THEN Upto(name, dot - 1) ELSE name))

\* Path(input_file).stem: the last path component, cut before its last dot
\* unless that dot is its first or its last character.
_process_title(input_file) ==
    Bind(From(input_file, RFind(input_file, "/") + 1), LAMBDA name :
    Bind(RFind(name, "."), LAMBDA dot :
    IF 1 < dot /\ dot < Len(name) THEN Upto(name, dot - 1) ELSE name))

\* _convert_markdown_to_confluence: stored is what markdown_file.read()
\* returns for the opened path.
_convert_markdown_to_confluence(input_file_path, stored) ==
    Bind(_convert_to_confluence(markdown(stored)), LAMBDA confluence_output :
    IF confluence_output.exc # "" THEN confluence_output
    ELSE Ok(Some(ProcessedFile(_process_title(input_file_path),
                               confluence_output.val))))

\* _convert_html_to_confluence: the path itself is handed to the pipeline;
\* no file is opened.
_convert_html_to_confluence(input_html) ==
    Bind(_convert_to_confluence(input_html), LAMBDA confluence_output :
    IF confluence_output.exc # "" THEN confluence_output
    ELSE Ok(Some(ProcessedFile(_process_title(input_html),
                               confluence_output.val))))

\* _process_a_file: None for any other file name.
_process_a_file(input_file, stored) ==
    IF EndsWith(input_file, ".md")
    THEN _convert_markdown_to_confluence(input_file, stored)
    ELSE IF EndsWith(input_file, ".html")
    THEN _convert_html_to_confluence(input_file)
    ELSE Ok(None)

\* The paths _process_a_file opens for reading (codecs.open, .md only).
Opened(input_file) ==
    IF EndsWith(input_file, ".md") THEN <<input_file>> ELSE <<>>

\* os.path.join(input_file_or_directory, child_file)
join(dir, child) == dir \o "/" \o child

\* The path convert hands to _process_a_file for entry k.
PathOf(k) ==
    IF fs.isdir THEN join(args.files, fs.entries[k].name) ELSE args.files

---------------------------------------------------------------------------
(* ConfluenceSessionBuilder.build *)

\* A wrong build: one value of the username/password pair is enough.
BuildOnEitherValue(config) ==
    IF config.user_name # None \/ config.user_pass # None
    THEN Ok(Some("username_password"))
    ELSE IF config.ssl_key # None /\ config.ssl_cert # None
    THEN Ok(Some("key_cert"))
    ELSE Raise("ValueError")

\* The kind of session build returns for config, or the ValueError it raises.
build(config) ==
    IF config.user_name # None /\ config.user_pass # None
    THEN Ok(Some("username_password"))
    ELSE IF config.ssl_key # None /\ config.ssl_cert # None
    THEN Ok(Some("key_cert"))
    ELSE Raise("ValueError")

---------------------------------------------------------------------------
(* ConfluencePoster *)

\* _find_page_id: the get_page_id call made on the session.
FindPageIdCall(config) ==
    [op |-> "get_page_id", space |-> config.space_key, title |-> config.space,
     parent_id |-> "", body |-> "", representation |-> ""]

\* _upsert_page_to_confluence: the update_or_create call made on the session.
UpsertCall(file, root_page_id) ==
    [op |-> "update_or_create", space |-> "", title |-> file.title,
     parent_id |-> root_page_id, body |-> file.content,
     representation |-> "storage"]

\* What update_or_create may return: a dict without statusCode (a page), or
\* one with a statusCode.
UpsertResults == {None, Some(200), Some(404)}

\* result.get('statusCode', 200)
StatusOf(result) == IF result = None THEN 200 ELSE result[1]

\* _log_error_information's record, written for a status other than 200.
ErrorsFor(result, file) ==
    IF StatusOf(result) # 200
    THEN <<[status |-> StatusOf(result), content |-> file.content]>>
    ELSE <<>>

---------------------------------------------------------------------------
(* main *)

\* The values a credential argument may have: absent (the default None) or
\* given on the command line.
CredValues == {None, Some("secret")}

\* The sequences over S of length at most n.
RECURSIVE SeqsUpTo(_, _)
SeqsUpTo(S, n) ==
    IF n = 0 THEN {<<>>}
    ELSE SeqsUpTo(S, n - 1)
         \cup {Append(q, f) : q \in {t \in SeqsUpTo(S, n - 1) : Len(t) = n - 1},
                              f \in S}

\* The variables of the converter's passes while main runs, and the
\* variables of main while a pass runs on its own.
NoPass == src = None /\ text = ""
NoMain ==
    /\ args = None /\ fs = None /\ idx = 0
    /\ processed_files = <<>> /\ reads = <<>>
    /\ session = None /\ calls = <<>> /\ results = <<>> /\ errlog = <<>>

\* The state as main has parsed its arguments and built the Configuration:
\* the -f argument names a directory of at most MaxFiles entries, or one file.
Init ==
    /\ pc = "process_the_files"
    /\ \E un \in CredValues, up \in CredValues, k \in CredValues, c \in CredValues :
         \E dir \in BOOLEAN, entries \in SeqsUpTo(FilePool, MaxFiles) :
           /\ ~dir => Len(entries) = 1
           /\ fs = [isdir |-> dir, entries |-> entries]
           /\ args = [confluence_url |-> "https://wiki", user_name |-> un,
                      user_pass |-> up, ssl_key |-> k, ssl_cert |-> c,
                      files |-> IF dir THEN "docs" ELSE join("docs", entries[1].name),
                      space |-> "Team", space_key |-> "TM"]
    /\ idx = 1
    /\ processed_files = <<>> /\ reads = <<>>
    /\ session = None /\ calls = <<>> /\ results = <<>> /\ errlog = <<>>
    /\ exc = ""
    /\ NoPass

\* convert: one iteration of the loop over os.listdir, or the single call of
\* the else branch. A raise in _process_a_file ends main.
convert_step ==
    /\ pc = "process_the_files"
    /\ idx <= Len(fs.entries)
    /\ \E r \in {_process_a_file(PathOf(idx), fs.entries[idx].text)} :
          /\ reads' = reads \o Opened(PathOf(idx))
          /\ IF r.exc # ""
             THEN /\ exc' = r.exc /\ pc' = "raised"
                  /\ UNCHANGED <<processed_files, idx>>
             ELSE /\ processed_files' = Append(processed_files, r.val)
                  /\ idx' = idx + 1
                  /\ UNCHANGED <<pc, exc>>
    /\ UNCHANGED <<args, fs, session, calls, results, errlog, src, text>>

\* convert returns; main goes on to post_the_files.
convert_return ==
    /\ pc = "process_the_files"
    /\ idx > Len(fs.entries)
    /\ pc' = "post_the_files"
    /\ UNCHANGED <<args, fs, idx, processed_files, reads, session, calls,
                   results, errlog, exc, src, text>>

\* post_the_files: the session is built, or build logs and raises.
build_session ==
    /\ pc = "post_the_files"
    /\ \E r \in {build(args)} :
          IF r.exc # ""
          THEN /\ exc' = r.exc /\ pc' = "raised"
               /\ errlog' = Append(errlog, [status |-> 0, content |-> "config"])
               /\ UNCHANGED <<session, idx>>
          ELSE /\ session' = r.val /\ pc' = "post_to_confluence" /\ idx' = 1
               /\ UNCHANGED <<exc, errlog>>
    /\ UNCHANGED <<args, fs, processed_files, reads, calls, results, src, text>>

\* A wrong post_to_confluence: the loop ends at the first upsert whose status
\* is not 200.
PostStepAbortingOnError ==
    /\ pc = "post_to_confluence"
    /\ idx <= Len(processed_files)
    /\ IF processed_files[idx] = None
       THEN idx' = idx + 1 /\ UNCHANGED <<calls, results, errlog>>
       ELSE \E result \in UpsertResults :
              /\ calls' = calls \o <<FindPageIdCall(args),
                                     UpsertCall(processed_files[idx][1],
                                                "id-of-" \o args.space)>>
              /\ results' = Append(results, result)
              /\ errlog' = errlog \o ErrorsFor(result, processed_files[idx][1])
              /\ idx' = IF StatusOf(result) # 200
                        THEN Len(processed_files) + 1 ELSE idx + 1
    /\ UNCHANGED <<pc, args, fs, processed_files, reads, session, exc, src, text>>

\* post_to_confluence: one iteration of the loop over processed_files. A None
\* entry is skipped; for a file the parent page id is looked up, the page
\* upserted, and a status other than 200 logged.
post_step ==
    /\ pc = "post_to_confluence"
    /\ idx <= Len(processed_files)
    /\ idx' = idx + 1
    /\ IF processed_files[idx] = None
       THEN UNCHANGED <<calls, results, errlog>>
       ELSE \E result \in UpsertResults :
              /\ calls' = calls \o <<FindPageIdCall(args),
                                     UpsertCall(processed_files[idx][1],
                                                "id-of-" \o args.space)>>
              /\ results' = Append(results, result)
              /\ errlog' = errlog \o ErrorsFor(result, processed_files[idx][1])
    /\ UNCHANGED <<pc, args, fs, processed_files, reads, session, exc, src, text>>

\* post_to_confluence returns and main returns 0.
post_return ==
    /\ pc = "post_to_confluence"
    /\ idx > Len(processed_files)
    /\ pc' = "done"
    /\ UNCHANGED <<args, fs, idx, processed_files, reads, session, calls,
                   results, errlog, exc, src, text>>

Next ==
    \/ convert_step
    \/ convert_return
    \/ build_session
    \/ post_step
    \/ post_return

Spec == Init /\ [][Next]_vars

---------------------------------------------------------------------------
(* The passes of the converter, called on texts built from parts *)

\* A pass returns: its result becomes the text, and the next pass is due
\* unless this one is the last the input asks for (src.last); or it raises.
Return(r, this, next) ==
    /\ exc' = r.exc
    /\ text' = IF r.exc # "" THEN text ELSE r.val
    /\ pc' = IF r.exc # "" THEN "raised"
             ELSE IF src.last = this THEN "returned" ELSE next
    /\ UNCHANGED <<args, fs, idx, processed_files, reads, session, calls,
                   results, errlog, src>>

\* _convert_to_confluence, line by line.
info_macros_pass ==
    /\ pc = "info_macros"
    /\ \E r \in {_convert_info_macros(text)} : Return(r, "info_macros", "links")

links_pass ==
    /\ pc = "links"
    /\ \E r \in {Ok(_convert_links(text))} : Return(r, "links", "code_block")

code_block_pass ==
    /\ pc = "code_block"
    /\ \E r \in {_convert_code_block(text)} : Return(r, "code_block", "references")

references_pass ==
    /\ pc = "references"
    /\ \E r \in {_convert_references(text)} : Return(r, "references", "returned")

\* The opening code tag with attribute text before and after an optional
\* class attribute, and a code block holding body.
CodeTag(before, class, after) ==
    "<pre><code" \o before
    \o (IF class = None THEN "" ELSE " class=\"" \o class[1] \o "\"")
    \o after \o ">"
CodeBlock(before, class, after, body) ==
    CodeTag(before, class, after) \o body \o "</code></pre>"

\* _convert_code_block on one code block: text before it, the tag's
\* attributes, the block's body.
CodeSources ==
    [last : {"code_block"},
     pre : {"", "<p>t</p>\n"},
     before : {"", " id=\"a\""},
     class : {None, Some("language-python"), Some("lang-c-sharp"),
              Some("python"), Some("")},
     after : {"", " id=\"b\""},
     body : {"x = 1", "a &lt; b", "&amp;lt;", "&quot;q&quot; &amp; &gt;",
             "a\nb"}]

InitCode ==
    /\ pc = "code_block"
    /\ src \in CodeSources
    /\ text = src.pre \o CodeBlock(src.before, src.class, src.after, src.body)
    /\ exc = ""
    /\ NoMain

NextCode == code_block_pass

SpecCode == InitCode /\ [][NextCode]_vars

\* The label of a blockquote in the eight formats _strip_type has a pattern
\* for, in the order of its patterns: the word, the colon and the white space
\* around them, outside or inside an <em> or <strong> element.
Label(format, wrap, word) ==
    CASE format = 1 -> word \o ": "
      [] format = 2 -> word \o " : "
      [] format = 3 -> "<" \o wrap \o ">" \o word \o ": " \o "</" \o wrap \o ">"
      [] format = 4 -> "<" \o wrap \o ">" \o word \o " : " \o "</" \o wrap \o ">"
      [] format = 5 -> "<" \o wrap \o ">" \o word \o ":" \o "</" \o wrap \o "> "
      [] format = 6 -> "<" \o wrap \o ">" \o word \o " :" \o "</" \o wrap \o "> "
      [] format = 7 -> "<" \o wrap \o ">" \o word \o "</" \o wrap \o ">: "
      [] format = 8 -> "<" \o wrap \o ">" \o word \o " </" \o wrap \o ">: "

\* _convert_info_macros on one labelled blockquote: the label's format, the
\* element that wraps it (none for the two plain formats), the word in three
\* letter cases, the text after the label, and the line breaks the renderer
\* puts around the paragraph.
InfoSources ==
    { s \in [last : {"info_macros"},
             format : 1..8,
             wrap : {"", "em", "strong"},
             word : {"Note", "note", "NOTE", "Warning", "warning", "WARNING"},
             rest : {"text", "mind the gap"},
             nl : {"", "\n"}] :
        (s.format <= 2) <=> (s.wrap = "") }

InitInfo ==
    /\ pc = "info_macros"
    /\ src \in InfoSources
    /\ text = "<blockquote>" \o src.nl \o "<p>"
              \o Label(src.format, src.wrap, src.word) \o src.rest
              \o "</p>" \o src.nl \o "</blockquote>"
    /\ exc = ""
    /\ NoMain

NextInfo == info_macros_pass

SpecInfo == InitInfo /\ [][NextInfo]_vars

\* The largest number of inline references to one footnote.
MaxUses == 2

\* n inline references to footnote id, each after a word.
RECURSIVE Uses(_, _)
Uses(id, n) == IF n = 0 THEN "" ELSE Uses(id, n - 1) \o "see[^" \o id \o "] "

\* A footnote definition line: [^id]: followed by a link to href.
DefLine(id, href) ==
    "[^" \o id \o "]: <a href=\"" \o href \o "\">" \o href \o "</a>"

\* _convert_references on a body paragraph with inline references and one
\* definition line, which is a paragraph of its own or the last line of the
\* body paragraph.
RefSources ==
    [last : {"references"},
     id : {"1", "3", "7", "10", "12"},
     href : {"http://x", "u"},
     uses : 1..MaxUses,
     own : BOOLEAN,
     lead : {"", "t "}]

InitRefs ==
    /\ pc = "references"
    /\ src \in RefSources
    /\ text = "<p>" \o src.lead \o Uses(src.id, src.uses)
              \o (IF src.own THEN "</p>\n<p>" ELSE "\n")
              \o DefLine(src.id, src.href) \o "</p>"
    /\ exc = ""
    /\ NoMain

NextRefs == references_pass

SpecRefs == InitRefs /\ [][NextRefs]_vars

\* An anchor tag: attribute text before and after the href attribute.
Anchor(before, href, after) ==
    "<a" \o before \o " href=\"" \o href \o "\"" \o after \o ">"

\* _convert_links on one anchor tag: the markup before it, the attributes
\* around href, the href value (one or several underscores), and the text the
\* anchor shows.
LinkSources ==
    [last : {"links"},
     pre : {"", "<p>see "},
     before : {"", " id=\"i\""},
     href : {"foo_bar", "Foo_Bar", "a_b", "foo_bar_baz", "a_b_c_d"},
     after : {"", " title=\"c_d\""},
     shown : {"x", "a_b"}]

InitLinks ==
    /\ pc = "links"
    /\ src \in LinkSources
    /\ text = src.pre \o Anchor(src.before, src.href, src.after)
              \o src.shown \o "</a>"
    /\ exc = ""
    /\ NoMain

NextLinks == links_pass

SpecLinks == InitLinks /\ [][NextLinks]_vars

\* _convert_to_confluence on a document, and then on what it returned for
\* that document: markup that becomes an info, note, warning or toc macro,
\* then a code block whose body is code as the renderer escapes it.
TwiceSources ==
    [pre : {"", "<blockquote>\n<p>Note: q</p>\n</blockquote>\n",
            "<blockquote>\n<p>plain</p>\n</blockquote>\n",
            "<p>~? info ?~</p>\n", "<p>~! hot !~</p>\n",
            "<!-- START doctoc -->\n- [a](#a)\n<!-- END doctoc -->\n"},
     class : {None, Some("language-python")},
     body : {"x = 1", "a &amp;lt; b", "open(&quot;README.md&quot;)",
             "&lt;a href=&quot;a_b&quot;&gt;", "see page.html#top",
             "&lt;pre&gt;&lt;code&gt;x&lt;/code&gt;&lt;/pre&gt;",
             "&lt;blockquote&gt;q&lt;/blockquote&gt;"}]

InitTwice ==
    /\ pc = "first_run"
    /\ src \in TwiceSources
    /\ text = src.pre \o CodeBlock("", src.class, "", src.body)
    /\ exc = ""
    /\ NoMain

\* One call of _convert_to_confluence on the text at hand: the document
\* first, the text the first call returned second.
convert_to_confluence_run ==
    /\ pc \in {"first_run", "second_run"}
    /\ \E r \in {_convert_to_confluence(text)} :
          /\ exc' = r.exc
          /\ text' = IF r.exc # "" THEN text ELSE r.val
          /\ pc' = IF r.exc # "" THEN "raised"
                   ELSE IF pc = "first_run" THEN "second_run" ELSE "returned"
    /\ UNCHANGED <<args, fs, idx, processed_files, reads, session, calls,
                   results, errlog, src>>

NextTwice == convert_to_confluence_run

SpecTwice == InitTwice /\ [][NextTwice]_vars

\* _convert_info_macros on one blockquote whose first line does not start
\* with a label: the first paragraph (plain, or with the word Note or Warning
\* further on in the line), an optional later paragraph on a line of its own
\* (which may start with a label), and the line breaks the renderer puts
\* around the paragraphs.
QuoteSources ==
    [last : {"info_macros"},
     first : {"plain text", "take note of this", "be warned: hot",
              "see the <em>Note</em> below", "a <strong>warning</strong> sign",
              "see <a href=\"u\">Notes</a>", "<em>Important</em>: read",
              "mind the NOTE and the WARNING"},
     later : {"", "Note: later", "Warning: later", "<em>Note</em>: later"},
     nl : {"", "\n"}]

InitQuote ==
    /\ pc = "info_macros"
    /\ src \in QuoteSources
    /\ text = "<blockquote>" \o src.nl \o "<p>" \o src.first \o "</p>"
              \o (IF src.later = "" THEN ""
                  ELSE "\n<p>" \o src.later \o "</p>")
              \o src.nl \o "</blockquote>"
    /\ exc = ""
    /\ NoMain

NextQuote == info_macros_pass

SpecQuote == InitQuote /\ [][NextQuote]_vars

\* s inside the element named tag, or bare when tag is empty.
Element(tag, s) ==
    IF tag = "" THEN s ELSE "<" \o tag \o ">" \o s \o "</" \o tag \o ">"

\* _convert_info_macros on one labelled blockquote of an html file: the
\* label in its eight formats, and the element that holds the label and the
\* text, a paragraph, a div, or none at all.
LabelSources ==
    { s \in [last : {"info_macros"},
             format : 1..8,
             wrap : {"", "em", "strong"},
             word : {"Note", "Warning", "note"},
             rest : {"text"},
             outer : {"p", "div", ""}] :
        (s.format <= 2) <=> (s.wrap = "") }

InitLabel ==
    /\ pc = "info_macros"
    /\ src \in LabelSources
    /\ text = "<blockquote>"
              \o Element(src.outer, Label(src.format, src.wrap, src.word)
                                    \o src.rest)
              \o "</blockquote>"
    /\ exc = ""
    /\ NoMain

NextLabel == info_macros_pass

SpecLabel == InitLabel /\ [][NextLabel]_vars

\* A footnote definition line for id: with a link, with a link whose href is
\* not its first attribute, or with no href at all.
Definition(id, kind) ==
    CASE kind = "link" -> DefLine(id, "http://x")
      [] kind = "titled" ->
           "[^" \o id \o "]: see <a title=\"t\" href=\"u\">u</a>"
      [] kind = "bare" -> "[^" \o id \o "]: no link"
      [] kind = "none" -> ""

\* The text _convert_references is called on for a source of DefSources.
DefsText(s) ==
    "<p>" \o s.lead \o Uses("1", s.uses)
    \o (IF s.own THEN "</p>\n<p>" ELSE "\n") \o Definition("1", s.d1)
    \o (IF s.d2 = "none" THEN ""
        ELSE (IF s.own THEN "</p>\n<p>" ELSE "\n") \o Definition("2", s.d2))
    \o "</p>"

\* _convert_references on a body paragraph with inline references to
\* footnote 1 and one or two definition lines (footnotes 1 and 2), each with
\* or without an href, as paragraphs of their own or as lines of the body
\* paragraph.
DefSources ==
    [last : {"references"},
     lead : {"", "t "},
     uses : 1..MaxUses,
     d1 : {"link", "titled", "bare"},
     d2 : {"none", "link", "titled", "bare"},
     own : BOOLEAN]

InitDefs ==
    /\ pc = "references"
    /\ src \in DefSources
    /\ text = DefsText(src)
    /\ exc = ""
    /\ NoMain

NextDefs == references_pass

SpecDefs == InitDefs /\ [][NextDefs]_vars

\* The largest number of doctoc blocks in a document.
MaxBlocks == 2

\* A doctoc comment block: the START marker, the generated list, the END
\* marker.
DoctocBlock(list) ==
    "<!-- START doctoc -->\n" \o list \o "\n<!-- END doctoc -->"

\* n pieces, each followed by between except the last.
RECURSIVE Joined(_, _, _)
Joined(piece, between, n) ==
    IF n = 0 THEN ""
    ELSE IF n = 1 THEN piece
    ELSE Joined(piece, between, n - 1) \o between \o piece

\* _convert_info_macros on a document with up to MaxBlocks doctoc blocks:
\* the text before the first, between two blocks and after the last, and the
\* list inside a block.
TocSources ==
    [last : {"info_macros"},
     blocks : 0..MaxBlocks,
     pre : {"", "<h1>Title</h1>\n"},
     between : {"", "\n", "\n<p>between</p>\n"},
     post : {"", "\n<p>after</p>"},
     list : {"- [a](#a)", "- [a](#a)\n- [b](#b)", ""}]

InitToc ==
    /\ pc = "info_macros"
    /\ src \in TocSources
    /\ text = src.pre \o Joined(DoctocBlock(src.list), src.between, src.blocks)
              \o src.post
    /\ exc = ""
    /\ NoMain

NextToc == info_macros_pass

SpecToc == InitToc /\ [][NextToc]_vars

\* _convert_to_confluence on a document with one code block: the markup
\* before it, its class attribute, its body (code as the renderer escapes
\* it), and the markup after it.
PipelineSources ==
    [last : {"references"},
     pre : {"", "<p>t[^1]</p>\n", "<p>~? info ?~</p>\n",
            "<blockquote>\n<p>Note: q</p>\n</blockquote>\n",
            "<p>see <a href=\"a_b.md\">a</a></p>\n"},
     class : {None, Some("language-python")},
     body : {"x = 1", "see page.html#top", "open(\"README.md\")", "note[^1]",
             "a &lt; b"},
     post : {"", "\n<p>[^1]: <a href=\"u\">u</a></p>"}]

InitPipeline ==
    /\ pc = "info_macros"
    /\ src \in PipelineSources
    /\ text = src.pre \o CodeBlock("", src.class, "", src.body) \o src.post
    /\ exc = ""
    /\ NoMain

NextPipeline ==
    \/ info_macros_pass
    \/ links_pass
    \/ code_block_pass
    \/ references_pass

SpecPipeline == InitPipeline /\ [][NextPipeline]_vars

---------------------------------------------------------------------------
(* The properties checked *)

\* Whether pat occurs in s.
Contains(s, pat) == Find(s, pat, 1) # 0

\* The number of non-overlapping occurrences of pat in s[k-1:] .
RECURSIVE CountFrom(_, _, _)
CountFrom(s, pat, k) ==
    Bind(Find(s, pat, k), LAMBDA p :
    IF p = 0 THEN 0 ELSE 1 + CountFrom(s, pat, p + Len(pat)))
Count(s, pat) ==
    Bind(s, LAMBDA s1 : Bind(pat, LAMBDA pat1 : CountFrom(s1, pat1, 1)))

\* Whether convert has returned its list to main.
ConvertReturned ==
    pc \in {"post_the_files", "post_to_confluence", "done"} \/ exc = "ValueError"

\* Whether build has been called and has returned or raised.
BuildCalled == pc \in {"post_to_confluence", "done"} \/ exc = "ValueError"

\* Whether a file name ends in one of the two recognised extensions.
Recognised(name) == EndsWith(name, ".md") \/ EndsWith(name, ".html")

\* Whether title is name with its extension removed. A name that is nothing
\* but a dot and a suffix is a hidden file without extension for pathlib, and
\* is its own title.
IsStemOf(title, name) ==
    \/ title # "" /\ name \in {title \o ".md", title \o ".html"}
    \/ name \in {".md", ".html"} /\ title = name

\* Whether entry k of the list convert builds is what directory entry k asks
\* for.
EntryConforms(k) ==
    IF Recognised(fs.entries[k].name)
    THEN /\ processed_files[k] # None
         /\ IsStemOf(processed_files[k][1].title, fs.entries[k].name)
    ELSE processed_files[k] = None

\* C1: for a directory, the list convert builds holds one entry per directory
\* entry, in the directory's order: entry k is a document titled with the
\* k-th file's name without path and extension when that name ends in .md or
\* .html, and None otherwise; when convert has returned, the list is as long
\* as the directory.
C1_OneEntryPerDirectoryEntry ==
    fs.isdir =>
      /\ Len(processed_files) <= Len(fs.entries)
      /\ \A k \in 1..Len(processed_files) : EntryConforms(k)
      /\ ConvertReturned => Len(processed_files) = Len(fs.entries)

\* C1 happens: convert returned for a directory of an unrecognised file and
\* a markdown file whose name holds two dots, and main ran to its end.
C1_DirectoryConverted ==
    /\ fs.isdir /\ pc = "done"
    /\ Len(fs.entries) = 2
    /\ fs.entries[1].name = "notes.txt" /\ fs.entries[2].name = "v1.2.md"
    /\ processed_files[1] = None
    /\ processed_files[2] # None /\ processed_files[2][1].title = "v1.2"

\* C2: the content of the document made for a file ending in .html is the
\* pipeline applied to the text stored in that file; an empty .html file
\* gives empty content.
C2_HtmlContentFromStoredText ==
    \A k \in 1..Len(processed_files) :
      EndsWith(fs.entries[k].name, ".html") =>
        /\ processed_files[k] # None
        /\ Ok(processed_files[k][1].content)
             = _convert_to_confluence(fs.entries[k].text)

\* The documents among the first k entries of processed_files.
Documents(k) == SelectSeq(SubSeq(processed_files, 1, k), LAMBDA e : e # None)

\* The calls post_to_confluence is to make for the documents docs[1..n]: for
\* each a page-id lookup and then the upsert of its title and content.
RECURSIVE ExpectedCalls(_, _)
ExpectedCalls(docs, n) ==
    IF n = 0 THEN <<>>
    ELSE ExpectedCalls(docs, n - 1)
         \o << [op |-> "get_page_id", space |-> args.space_key,
                title |-> args.space, parent_id |-> "", body |-> "",
                representation |-> ""],
               [op |-> "update_or_create", space |-> "",
                title |-> docs[n][1].title, parent_id |-> "id-of-" \o args.space,
                body |-> docs[n][1].content, representation |-> "storage"] >>

\* The error records due for the upserts of docs[1..n], given what each
\* returned: one for each status other than 200.
RECURSIVE ExpectedErrors(_, _)
ExpectedErrors(docs, n) ==
    IF n = 0 THEN <<>>
    ELSE ExpectedErrors(docs, n - 1)
         \o (IF results[n] # None /\ results[n][1] # 200
             THEN <<[status |-> results[n][1], content |-> docs[n][1].content]>>
             ELSE <<>>)

\* C3: while post_to_confluence runs, the calls made so far are, for the
\* documents among the entries passed so far and in their order, one page-id
\* lookup followed by one upsert of the document's title and content, and
\* none for a None entry; each upsert whose status is not 200 is logged; and
\* when the loop has ended every document has been looked up and upserted,
\* whatever the upserts before it returned.
C3_OneLookupAndUpsertPerDocument ==
    pc \in {"post_to_confluence", "done"} =>
      /\ Len(results) = Len(Documents(idx - 1))
      /\ calls = ExpectedCalls(Documents(idx - 1), Len(results))
      /\ errlog = ExpectedErrors(Documents(idx - 1), Len(results))
      /\ pc = "done" => idx - 1 = Len(processed_files)

\* C3 happens: of two documents the first upsert returned status 404, it
\* was logged, and the second document was still looked up and upserted.
C3_PostedAfterAnError ==
    /\ pc = "done"
    /\ Len(processed_files) = 2
    /\ processed_files[1] # None /\ processed_files[2] # None
    /\ results = <<Some(404), None>>
    /\ Len(calls) = 4 /\ Len(errlog) = 1

\* Whether the credentials are misconfigured: neither pair is complete.
UserPair == args.user_name # None /\ args.user_pass # None
KeyPair == args.ssl_key # None /\ args.ssl_cert # None
Misconfigured == ~UserPair /\ ~KeyPair

\* C4: in a run whose credentials are misconfigured no input file is read or
\* converted: the configuration error comes before any file processing.
C4_ConfigErrorBeforeFileProcessing ==
    Misconfigured => reads = <<>> /\ processed_files = <<>>

\* C5 (as the code has it): once build has been called there is a session if
\* and only if at least one of the two credential pairs is complete, a
\* username/password session whenever that pair is complete and a key/cert
\* session otherwise; when neither pair is complete build raises ValueError
\* and there is no session.
C5_SessionIffSomePairComplete ==
    /\ BuildCalled /\ UserPair =>
         session = Some("username_password") /\ exc # "ValueError"
    /\ BuildCalled /\ ~UserPair /\ KeyPair =>
         session = Some("key_cert") /\ exc # "ValueError"
    /\ BuildCalled /\ Misconfigured => session = None /\ exc = "ValueError"
    /\ ~BuildCalled => session = None

\* C5 happens: build was called with both pairs complete and returned a
\* username/password session.
C5_BothPairsComplete ==
    /\ UserPair /\ KeyPair
    /\ pc = "done"
    /\ session = Some("username_password")

\* C5 (as stated): once build has been called there is a session if and only
\* if exactly one of the two credential pairs is complete; with neither or
\* both complete build raises the configuration error and there is no
\* session.
C5_SessionIffExactlyOnePair ==
    BuildCalled =>
      IF UserPair # KeyPair
      THEN session # None /\ exc # "ValueError"
      ELSE session = None /\ exc = "ValueError"

\* The text between the CDATA brackets of the first code macro of t.
CDataBody(t) ==
    Mid(t, Find(t, "<![CDATA[", 1) + Len("<![CDATA["),
        Find(t, "]]></ac:plain-text-body>", 1) - 1)

\* C6: for every input of the pipeline, the body of a code block in the final
\* output is the original body changed by entity unescaping only: the link,
\* admonition and footnote rewrites leave the text inside it alone.
C6_CodeBodyOnlyUnescaped ==
    pc = "returned" => CDataBody(text) = Unescape(src.body)

\* The language the code macro is to name for a class attribute: none without
\* one, else what follows the last hyphen of its value.
ClaimedLanguage(class) ==
    IF class = None THEN "none" ELSE From(class[1], RFind(class[1], "-") + 1)

\* The start of the code macro for a language: the three parameters in order.
ClaimedMacroStart(language) ==
    "<ac:structured-macro ac:name=\"code\">"
    \o "<ac:parameter ac:name=\"theme\">Midnight</ac:parameter>"
    \o "<ac:parameter ac:name=\"linenumbers\">true</ac:parameter>"
    \o "<ac:parameter ac:name=\"language\">" \o language \o "</ac:parameter>"

\* C7: for a code block the code-block pass returns, and what it returns
\* holds one code macro, in the block's place, with the parameters theme,
\* linenumbers and language in that order, the language being what follows
\* the last hyphen of the class value when the tag has a class attribute,
\* wherever it stands among the attributes, and none when it has not.
C7_LanguageFromClassAttribute ==
    pc # "code_block" =>
      /\ exc = ""
      /\ StartsAt(text, ClaimedMacroStart(ClaimedLanguage(src.class)),
                  Len(src.pre) + 1)
      /\ Count(text, "<ac:structured-macro ac:name=\"code\">") = 1

\* s decoded once from position k on: one pass from left to right in which
\* each of the four entities becomes its character and what a replacement
\* produced is not read again.
RECURSIVE DecodedOnceFrom(_, _)
DecodedOnceFrom(s, k) ==
    IF k > Len(s) THEN ""
    ELSE IF StartsAt(s, "&amp;", k) THEN "&" \o DecodedOnceFrom(s, k + Len("&amp;"))
    ELSE IF StartsAt(s, "&quot;", k) THEN "\"" \o DecodedOnceFrom(s, k + Len("&quot;"))
    ELSE IF StartsAt(s, "&lt;", k) THEN "<" \o DecodedOnceFrom(s, k + Len("&lt;"))
    ELSE IF StartsAt(s, "&gt;", k) THEN ">" \o DecodedOnceFrom(s, k + Len("&gt;"))
    ELSE At(s, k) \o DecodedOnceFrom(s, k + 1)

\* C8: the CDATA body of the macro made for a code block is the block's body
\* decoded once.
C8_BodyDecodedOnce ==
    pc = "returned" => CDataBody(text) = DecodedOnceFrom(src.body, 1)

\* s with its first character upper-cased.
Capitalised(s) == Upper(At(s, 1)) \o From(s, 2)

\* C9: for a blockquote labelled Note or Warning in any letter case and any
\* of the eight label formats, the pass returns a note or warning macro whose
\* body no longer holds the label and holds the text after the label with
\* its first letter upper-cased.
C9_LabelRemovedAndTextCapitalised ==
    pc # "info_macros" =>
      /\ exc = ""
      /\ StartsAt(text,
                  "<p><ac:structured-macro ac:name=\""
                  \o (IF LowerStr(src.word) = "note" THEN "note" ELSE "warning")
                  \o "\"><ac:rich-text-body><p>", 1)
      /\ EndsWith(text, "</p></ac:rich-text-body></ac:structured-macro></p>")
      /\ ~Contains(LowerStr(From(text, Find(text, "<ac:rich-text-body>", 1))),
                   LowerStr(src.word))
      /\ Contains(text, Capitalised(src.rest))

\* The superscript anchor for footnote id linking to href.
ClaimedAnchor(href, id) ==
    "<a id=\"test\" href=\"" \o href \o "\"><sup>" \o id \o "</sup></a>"

\* C10: for a definition line [^N]... whose id N is a sequence of digits and
\* which holds href="U", after the footnote pass every inline [^N] is the
\* superscript anchor to U showing N, no [^N] is left, and the definition
\* line is gone.
C10_EveryReferenceReplaced ==
    pc # "references" =>
      /\ exc = ""
      /\ ~Contains(text, "[^" \o src.id \o "]")
      /\ ~Contains(text, ": <a href=\"" \o src.href \o "\">" \o src.href \o "</a>")
      /\ Count(text, ClaimedAnchor(src.href, src.id)) = src.uses

\* C11: after the link pass the href of an anchor tag has its first
\* underscore replaced by one space, whether it joins two words or more; the
\* later underscores of an href of several words stay, and the rest of the
\* tag and the text around it are unchanged.
C11_FirstUnderscoreBecomesSpace ==
    pc # "links" =>
      /\ exc = ""
      /\ text = src.pre
                \o Anchor(src.before, ReplaceN(src.href, "_", " ", 1), src.after)
                \o src.shown \o "</a>"

\* The macro blocks of t from position k on: each stretch from the opening
\* tag of a structured macro through the next closing tag.
RECURSIVE MacroBlocksFrom(_, _)
MacroBlocksFrom(t, k) ==
    Bind(Find(t, "<ac:structured-macro", k), LAMBDA o :
    IF o = 0 THEN {}
    ELSE
    Bind(Find(t, "</ac:structured-macro>", o), LAMBDA c :
    IF c = 0 THEN {}
    ELSE {Mid(t, o, c + Len("</ac:structured-macro>") - 1)}
         \cup MacroBlocksFrom(t, c + Len("</ac:structured-macro>"))))

\* C12: the pipeline applied to its own output returns, and every macro
\* block the first run emitted (code, info, note, warning, toc) stands
\* unchanged in what the second run returns.
C12_SecondRunKeepsMacroBlocks ==
    [][pc = "second_run" =>
         /\ exc' = ""
         /\ \A b \in MacroBlocksFrom(text, 1) : Contains(text', b)]_vars

\* The info macro whose text is the paragraph s as it stands.
ClaimedInfo(s) ==
    "<p><ac:structured-macro ac:name=\"info\"><ac:rich-text-body><p>" \o s
    \o "</p></ac:rich-text-body></ac:structured-macro></p>"

\* C13: a blockquote whose first line does not start with the Note or Warning
\* label is emitted as info macros holding its paragraphs with nothing
\* stripped and no letter re-capitalised, whatever words occur later in its
\* first line or in its later lines.
C13_UnlabelledBlockquoteIsInfo ==
    pc # "info_macros" =>
      /\ exc = ""
      /\ text = ClaimedInfo(src.first)
                \o (IF src.later = "" THEN ""
                    ELSE "\n" \o ClaimedInfo(src.later))

\* C14: the admonition and TOC pass raises nothing: for a blockquote with a
\* label, whatever tags surround the label, it returns a string.
C14_InfoMacrosRaisesNothing ==
    pc # "info_macros" => exc = "" /\ pc = "returned"

\* Whether some definition line of the source holds no href.
SomeDefinitionBare == src.d1 = "bare" \/ src.d2 = "bare"

\* C15: when a definition line the footnote pass finds holds no href, the
\* pass ends by raising AttributeError and hands on no text, rewritten in
\* part or in whole, and the conversion of that text raises likewise and
\* builds no document; when every definition line holds an href the pass
\* returns.
C15_MissingHrefRaises ==
    pc # "references" =>
      IF SomeDefinitionBare
      THEN /\ pc = "raised" /\ exc = "AttributeError"
           /\ text = DefsText(src)
           /\ _convert_to_confluence(DefsText(src)) = Raise("AttributeError")
      ELSE /\ pc = "returned" /\ exc = ""

\* C15 happens: the first definition held an href and the second none; the
\* pass raised at the second and nothing of the first's rewriting is left.
C15_RaisedAtSecondDefinition ==
    /\ src.d1 = "link" /\ src.d2 = "bare" /\ src.uses = 2
    /\ pc = "raised" /\ exc = "AttributeError"
    /\ Count(text, "[^1]") = 3

\* C16: each doctoc block, from its START marker through its own END marker,
\* becomes one toc macro and the text outside the blocks stays: a document
\* with k blocks comes out with k toc macros, the text before, between and
\* after them unchanged.
C16_EachDoctocBlockBecomesToc ==
    pc # "info_macros" =>
      /\ exc = ""
      /\ text = src.pre \o Joined(toc_tag, src.between, src.blocks) \o src.post

===========================================================================
